---- MODULE Spec2Model ----
(***************************************************************************)
(* Guest image loader of libsel4vmmplatsupport (arch/arm/guest_image.c).   *)
(*                                                                         *)
(* One call of vm_load_guest_kernel / vm_load_guest_module is modelled as  *)
(* a sequence of steps, one per call the code makes into its collaborators *)
(* (byte source, memory manager, page-reference resolver, cache            *)
(* maintenance).  Every collaborator call is appended to `events`, so the  *)
(* order and the arguments of the calls can be stated as invariants.       *)
(*                                                                         *)
(* Units.  TLC integers are 32-bit signed, so guest-physical addresses and *)
(* sizes are counted in 32-bit words (4 bytes): a uintptr_t / size_t of 32 *)
(* bits ranges over 0 .. 2^30 - 1 words and arithmetic wraps modulo 2^30.  *)
(* Every modelled address and length is word aligned.  Header fields are   *)
(* kept as their four bytes in memory order (little-endian target).        *)
(*                                                                         *)
(* Environment.  The artifact is opened by name twice, once by             *)
(* get_guest_image_type and once by load_image.  The byte-source provider  *)
(* is not part of this file: each open may fail, each handle delivers the  *)
(* number of bytes the provider has for it at that moment, lseek may fail, *)
(* and any read may come back short.  The memory manager may fail to mark  *)
(* the range, to map deferred pages, or to give access to a page; the      *)
(* page-reference lookup may return seL4_CapNull and the cache operation   *)
(* may return an error.                                                    *)
(***************************************************************************)
EXTENDS Integers, Sequences, FiniteSets, TLC

VARIABLES
    vm_entry,       \* vm->entry (words)
    clean_cache,    \* vm->mem.clean_cache
    defer_map,      \* config_set(CONFIG_LIB_SEL4VM_DEFER_MEMORY_MAP)
    pc,             \* position of the single caller thread
    role,           \* "kernel" | "module": which facade entry point is running
    base,           \* load_address argument of the facade (words)
    descNull,       \* the output descriptor pointer is NULL
    desc,           \* the caller's output descriptor {load_paddr, size}
    hdr,            \* first 64 bytes the provider serves for the artifact
    ret,            \* return value of the facade call (meaningful once pc = "done")
    ret_file_type,  \* *image_type written by get_guest_image_type
    load_addr,      \* load_addr of load_guest_*_image / load_image
    file_size,      \* file_size of load_image
    avail,          \* bytes (words) the handle opened by load_image can deliver
    fpos,           \* read position of that handle
    off,            \* progress of vm_ram_touch: offset of the next chunk
    error,          \* load_image's local `error`: result of vm_ram_touch
    err,            \* load_guest_*_image's local `err`: result of load_image
    image_size,     \* *resulting_image_size (kernel_len / module_len)
    fds,            \* handles opened by the current call and not closed yet
    nopen,          \* number of handles opened by the current call
    events          \* collaborator calls of the current call, in order

vars == <<vm_entry, clean_cache, defer_map, pc, role, base, descNull, desc, hdr,
          ret, ret_file_type, load_addr, file_size, avail, fpos, off, error, err,
          image_size, fds, nopen, events>>

config == <<vm_entry, clean_cache, defer_map>>

(***************************************************************************)
(* Bounds of the model.                                                    *)
(***************************************************************************)
MaxPages == 3

(***************************************************************************)
(* Machine arithmetic.                                                     *)
(***************************************************************************)
WORD_BYTES == 4
UINTPTR_MOD == 2^30                    \* 2^32 bytes, in words
SIZE_MAX == UINTPTR_MOD - 1            \* (size_t)-1, what a failed lseek yields
Wrap(n) == n % UINTPTR_MOD
Min(a, b) == IF a < b THEN a ELSE b

PAGE_SIZE_4K == \h1000 \div WORD_BYTES

ROUND_UP(n, b) == IF n % b = 0 THEN n ELSE Wrap(n + (b - (n % b)))

(***************************************************************************)
(* Header fields: four bytes in memory order.                              *)
(***************************************************************************)
LE32(hi16, lo16) == <<lo16 % 256, lo16 \div 256, hi16 % 256, hi16 \div 256>>
ZeroWord == <<0, 0, 0, 0>>

UIMAGE_MAGIC == LE32(\h5619, \h0527)
ZIMAGE_MAGIC == LE32(\h016F, \h2818)
DTB_MAGIC == LE32(\hedfe, \h0dd0)
INITRD_GZ_MAGIC == <<\h1f, \h8b>>
ELFMAG == <<\h7f, \h45, \h4c, \h46>>

\* sizeof(Elf64_Ehdr) = 64 bytes
sizeof_header == 64 \div WORD_BYTES

\* value of a uint32_t field as an address in words (the field is word aligned)
U32Words(b) == (b[1] \div WORD_BYTES) + b[2] * 64 + b[3] * 16384 + b[4] * 4194304

IMG_BIN == "IMG_BIN"
IMG_ELF == "IMG_ELF"
IMG_UIMAGE == "IMG_UIMAGE"
IMG_ZIMAGE == "IMG_ZIMAGE"
IMG_DTB == "IMG_DTB"
IMG_INITRD_GZ == "IMG_INITRD_GZ"

elf_check_magic(file) == IF file.ident = ELFMAG THEN 0 ELSE -1
is_uImage(file) == IF file.ident = UIMAGE_MAGIC THEN 0 ELSE 1
is_zImage(file) == IF file.magic # ZIMAGE_MAGIC THEN 1 ELSE 0
is_dtb(file) == IF file.ident # DTB_MAGIC THEN 1 ELSE 0
is_initrd(file) == IF SubSeq(file.ident, 1, 2) # INITRD_GZ_MAGIC THEN 1 ELSE 0

\* faulty variant: the zImage magic is tested before the ELF magic
image_get_type_ZImageFirst(file) ==
    IF is_zImage(file) = 0 THEN IMG_ZIMAGE
    ELSE IF elf_check_magic(file) = 0 THEN IMG_ELF
    ELSE IF is_uImage(file) = 0 THEN IMG_UIMAGE
    ELSE IF is_dtb(file) = 0 THEN IMG_DTB
    ELSE IF is_initrd(file) = 0 THEN IMG_INITRD_GZ
    ELSE IMG_BIN

image_get_type(file) ==
    IF elf_check_magic(file) = 0 THEN IMG_ELF
    ELSE IF is_zImage(file) = 0 THEN IMG_ZIMAGE
    ELSE IF is_uImage(file) = 0 THEN IMG_UIMAGE
    ELSE IF is_dtb(file) = 0 THEN IMG_DTB
    ELSE IF is_initrd(file) = 0 THEN IMG_INITRD_GZ
    ELSE IMG_BIN

\* faulty variant: the header's start field is ignored
zImage_get_load_address_NoStart(file, ram_base) ==
    Wrap(ram_base + (\h8000 \div WORD_BYTES))

zImage_get_load_address(file, ram_base) ==
    IF file.start # ZeroWord THEN U32Words(file.start) ELSE Wrap(ram_base + (\h8000 \div WORD_BYTES))

(***************************************************************************)
(* Inputs.                                                                 *)
(***************************************************************************)
NONE == "none"
PRIOR == 0 - 1      \* content of the caller's descriptor before the call

Idents == {ELFMAG, UIMAGE_MAGIC, DTB_MAGIC, <<\h1f, \h8b, 8, 0>>, ZeroWord}
Starts == {ZeroWord, LE32(0, \h1000)}
Headers == {h \in [ident : Idents, magic : {ZIMAGE_MAGIC, ZeroWord}, start : Starts] :
                h.start # ZeroWord => (h.magic = ZIMAGE_MAGIC /\ h.ident = ZeroWord)}

Entries == {0, \h4000 * (65536 \div WORD_BYTES)}
Bases == {0, \h8000 * (65536 \div WORD_BYTES), \h8000 * (65536 \div WORD_BYTES) + (\h800 \div WORD_BYTES),
          UINTPTR_MOD - (\h8000 \div WORD_BYTES)}

\* lengths of a non-empty artifact: whole pages, and pages plus a tail
Lens == {k * PAGE_SIZE_4K : k \in 1..MaxPages}
            \cup {(k - 1) * PAGE_SIZE_4K + sizeof_header + 4 : k \in {1, MaxPages}}
HdrLens == {0, 5, sizeof_header}

Ev(op, a, b, c) == [op |-> op, a |-> a, b |-> b, c |-> c]

Init ==
    /\ vm_entry \in Entries
    /\ clean_cache \in BOOLEAN
    /\ defer_map \in BOOLEAN
    /\ pc = "idle"
    /\ role = NONE
    /\ base = 0
    /\ descNull = FALSE
    /\ desc = [load_paddr |-> PRIOR, size |-> PRIOR]
    /\ hdr = [ident |-> ZeroWord, magic |-> ZeroWord, start |-> ZeroWord]
    /\ ret = 0
    /\ ret_file_type = NONE
    /\ load_addr = 0
    /\ file_size = 0
    /\ avail = 0
    /\ fpos = 0
    /\ off = 0
    /\ error = 0
    /\ err = 0
    /\ image_size = PRIOR
    /\ fds = {}
    /\ nopen = 0
    /\ events = <<>>

\* faulty variant: the facade does not test its output descriptor
Enter_NoNullCheck(r, b, h, isNull) ==
    /\ pc = "idle"
    /\ role' = r
    /\ base' = b
    /\ hdr' = h
    /\ descNull' = isNull
    /\ desc' = [load_paddr |-> PRIOR, size |-> PRIOR]
    /\ ret_file_type' = NONE
    /\ load_addr' = 0
    /\ file_size' = 0
    /\ avail' = 0
    /\ fpos' = 0
    /\ off' = 0
    /\ error' = 0
    /\ err' = 0
    /\ image_size' = PRIOR
    /\ fds' = {}
    /\ nopen' = 0
    /\ events' = <<>>
    /\ ret' = 0
    /\ pc' = "get_type"
    /\ UNCHANGED config

\* A caller enters one of the two facade functions (lines 256-264, 274-283).
Enter(r, b, h, isNull) ==
    /\ pc = "idle"
    /\ role' = r
    /\ base' = b
    /\ hdr' = h
    /\ descNull' = isNull
    /\ desc' = [load_paddr |-> PRIOR, size |-> PRIOR]
    /\ ret_file_type' = NONE
    /\ load_addr' = 0
    /\ file_size' = 0
    /\ avail' = 0
    /\ fpos' = 0
    /\ off' = 0
    /\ error' = 0
    /\ err' = 0
    /\ image_size' = PRIOR
    /\ fds' = {}
    /\ nopen' = 0
    /\ events' = <<>>
    /\ IF isNull
       THEN ret' = 0 - 1 /\ pc' = "done"
       ELSE ret' = 0 /\ pc' = "get_type"
    /\ UNCHANGED config

vm_load_guest_kernel ==
    \E b \in Bases, h \in Headers, isNull \in BOOLEAN : Enter("kernel", b, h, isNull)

vm_load_guest_module ==
    \E b \in Bases, h \in Headers, isNull \in BOOLEAN : Enter("module", b, h, isNull)

(***************************************************************************)
(* get_guest_image_type: open the artifact, read the header window,        *)
(* classify, close.  The provider decides whether the open succeeds and    *)
(* how many bytes (words) it can deliver.  On failure load_guest_*_image   *)
(* returns 0 and the facade returns -1.                                    *)
(***************************************************************************)
get_guest_image_type ==
    /\ pc = "get_type"
    /\ \E openFail \in BOOLEAN, short \in {0} \cup {sizeof_header - h : h \in HdrLens} :
        LET openOk == ~openFail
            have == sizeof_header - short
            fd == nopen + 1
            len == Min(sizeof_header, have)
        IN  IF ~openOk
            THEN /\ events' = events \o <<Ev("open", 0 - 1, 0, 0)>>
                 /\ UNCHANGED <<nopen, ret_file_type>>
                 /\ ret' = 0 - 1
                 /\ pc' = "done"
            ELSE /\ nopen' = fd
                 /\ events' = events \o <<Ev("open", fd, 0, 0),
                                           Ev("read_header", fd, sizeof_header, len),
                                           Ev("close", fd, 0, 0)>>
                 /\ IF len # sizeof_header
                    THEN /\ UNCHANGED ret_file_type
                         /\ ret' = 0 - 1
                         /\ pc' = "done"
                    ELSE /\ ret_file_type' = image_get_type(hdr)
                         /\ UNCHANGED ret
                         /\ pc' = "resolve"
    /\ UNCHANGED <<config, role, base, descNull, desc, hdr, load_addr, file_size,
                   avail, fpos, off, error, err, image_size, fds>>

(***************************************************************************)
(* The switch of load_guest_kernel_image / load_guest_module_image: the    *)
(* load address of a supported format, or UNSUPPORTED (the default branch, *)
(* which returns 0).                                                       *)
(***************************************************************************)
UNSUPPORTED == 0 - 1

\* faulty variant: the default branch loads the artifact as a raw binary
kernel_load_addr_DefaultIsRaw(type, file, entry, load_base_addr) ==
    CASE type = IMG_ZIMAGE -> zImage_get_load_address(file, load_base_addr)
      [] OTHER -> entry

kernel_load_addr(type, file, entry, load_base_addr) ==
    CASE type = IMG_BIN -> entry
      [] type = IMG_ZIMAGE -> zImage_get_load_address(file, load_base_addr)
      [] OTHER -> UNSUPPORTED

module_load_addr(type, file, load_base_addr) ==
    CASE type \in {IMG_DTB, IMG_INITRD_GZ} -> load_base_addr
      [] OTHER -> UNSUPPORTED

Resolve(a) ==
    /\ IF a = UNSUPPORTED
       THEN /\ ret' = 0 - 1
            /\ pc' = "done"
            /\ UNCHANGED load_addr
       ELSE /\ load_addr' = a
            /\ pc' = "load"
            /\ UNCHANGED ret
    /\ UNCHANGED <<config, role, base, descNull, desc, hdr, ret_file_type, file_size,
                   avail, fpos, off, error, err, image_size, fds, nopen, events>>

load_guest_kernel_image ==
    /\ pc = "resolve"
    /\ role = "kernel"
    /\ Resolve(kernel_load_addr(ret_file_type, hdr, vm_entry, base))

load_guest_module_image ==
    /\ pc = "resolve"
    /\ role = "module"
    /\ Resolve(module_load_addr(ret_file_type, hdr, base))

(***************************************************************************)
(* load_image up to the call of vm_ram_touch (lines 159-186).              *)
(*   step 0: open fails                       -> return -1                 *)
(*   step 1: file_size = 0                    -> return -1                 *)
(*   step 2: vm_ram_mark_allocated (result not looked at)                  *)
(*   step 3: maybe_map_deferred_pages_at, when configured; error -> -1     *)
(* LoadImagePrologue gives the events, the handles left open and the       *)
(* outcome for the provider's and the memory manager's answers.            *)
(***************************************************************************)
\* faulty variant: an empty artifact is not refused
LoadImagePrologue_NoZeroCheck(fd, openOk, size, markOk, deferOk) ==
    IF ~openOk
    THEN [events |-> <<Ev("open", 0 - 1, 0, 0)>>, fds |-> {}, go |-> FALSE]
    ELSE LET seek == <<Ev("open", fd, 0, 0), Ev("lseek_end", fd, size, 0), Ev("lseek_set", fd, 0, 0)>>
             mark == <<Ev("mark_allocated", load_addr, ROUND_UP(size, PAGE_SIZE_4K), markOk)>>
             defer == <<Ev("map_deferred", load_addr, size, deferOk)>>
         IN  IF defer_map
             THEN IF ~deferOk
                  THEN [events |-> seek \o mark \o defer, fds |-> {fd}, go |-> FALSE]
                  ELSE [events |-> seek \o mark \o defer, fds |-> {fd}, go |-> TRUE]
             ELSE [events |-> seek \o mark, fds |-> {fd}, go |-> TRUE]

\* faulty variant: the result of maybe_map_deferred_pages_at is not looked at
LoadImagePrologue_DeferUnchecked(fd, openOk, size, markOk, deferOk) ==
    IF ~openOk
    THEN [events |-> <<Ev("open", 0 - 1, 0, 0)>>, fds |-> {}, go |-> FALSE]
    ELSE LET seek == <<Ev("open", fd, 0, 0), Ev("lseek_end", fd, size, 0), Ev("lseek_set", fd, 0, 0)>>
             mark == <<Ev("mark_allocated", load_addr, ROUND_UP(size, PAGE_SIZE_4K), markOk)>>
             defer == <<Ev("map_deferred", load_addr, size, deferOk)>>
         IN  IF 0 = size
             THEN [events |-> seek, fds |-> {fd}, go |-> FALSE]
             ELSE IF defer_map
             THEN [events |-> seek \o mark \o defer, fds |-> {fd}, go |-> TRUE]
             ELSE [events |-> seek \o mark, fds |-> {fd}, go |-> TRUE]

\* faulty variant: the deferred mapping is requested for the page-rounded size
LoadImagePrologue_DeferRounded(fd, openOk, size, markOk, deferOk) ==
    IF ~openOk
    THEN [events |-> <<Ev("open", 0 - 1, 0, 0)>>, fds |-> {}, go |-> FALSE]
    ELSE LET seek == <<Ev("open", fd, 0, 0), Ev("lseek_end", fd, size, 0), Ev("lseek_set", fd, 0, 0)>>
             mark == <<Ev("mark_allocated", load_addr, ROUND_UP(size, PAGE_SIZE_4K), markOk)>>
             defer == <<Ev("map_deferred", load_addr, ROUND_UP(size, PAGE_SIZE_4K), deferOk)>>
         IN  IF 0 = size
             THEN [events |-> seek, fds |-> {fd}, go |-> FALSE]
             ELSE IF defer_map
             THEN IF ~deferOk
                  THEN [events |-> seek \o mark \o defer, fds |-> {fd}, go |-> FALSE]
                  ELSE [events |-> seek \o mark \o defer, fds |-> {fd}, go |-> TRUE]
             ELSE [events |-> seek \o mark, fds |-> {fd}, go |-> TRUE]

LoadImagePrologue(fd, openOk, size, markOk, deferOk) ==
    IF ~openOk
    THEN [events |-> <<Ev("open", 0 - 1, 0, 0)>>, fds |-> {}, go |-> FALSE]
    ELSE LET seek == <<Ev("open", fd, 0, 0), Ev("lseek_end", fd, size, 0), Ev("lseek_set", fd, 0, 0)>>
             mark == <<Ev("mark_allocated", load_addr, ROUND_UP(size, PAGE_SIZE_4K), markOk)>>
             defer == <<Ev("map_deferred", load_addr, size, deferOk)>>
         IN  IF 0 = size
             THEN [events |-> seek, fds |-> {fd}, go |-> FALSE]
             ELSE IF defer_map
             THEN IF ~deferOk
                  THEN [events |-> seek \o mark \o defer, fds |-> {fd}, go |-> FALSE]
                  ELSE [events |-> seek \o mark \o defer, fds |-> {fd}, go |-> TRUE]
             ELSE [events |-> seek \o mark, fds |-> {fd}, go |-> TRUE]

load_image ==
    /\ pc = "load"
    /\ \E empty \in BOOLEAN, openFail \in BOOLEAN, len \in Lens, seekFail \in BOOLEAN,
          markFail \in BOOLEAN, deferFail \in BOOLEAN :
        LET have == IF empty THEN 0 ELSE len
            openOk == ~openFail
            markOk == ~markFail
            deferOk == ~deferFail
            size == IF seekFail THEN SIZE_MAX ELSE have
            r == LoadImagePrologue(nopen + 1, openOk, size, markOk, deferOk)
        IN  /\ events' = events \o r.events
            /\ fds' = fds \cup r.fds
            /\ nopen' = IF openOk THEN nopen + 1 ELSE nopen
            /\ avail' = IF openOk THEN have ELSE 0
            /\ file_size' = IF openOk THEN size ELSE 0
            /\ IF r.go
               THEN /\ pc' = "touch"
                    /\ UNCHANGED err
               ELSE /\ pc' = "return"
                    /\ err' = 0 - 1
    /\ UNCHANGED <<config, role, base, descNull, desc, hdr, ret, ret_file_type, load_addr,
                   fpos, off, error, image_size>>

(***************************************************************************)
(* guest_write_address: the callback of vm_ram_touch for one chunk.        *)
(* `got` is what read() returned, `cap` what vspace_get_cap returned and   *)
(* `cleanError` what seL4_ARM_Page_CleanInvalidate_Data returned.          *)
(* ZF_LOGF_IFERR is fatal: with a non-zero error the process is aborted.   *)
(***************************************************************************)
seL4_CapNull == 0

Rd(offset, size, got, pos) == [op |-> "read", a |-> offset, b |-> size, c |-> got, pos |-> pos]

\* faulty variant: the page is looked up but never cleaned
guest_write_address_NoClean(size, offset, pos, got, cap, cleanError) ==
    LET rd == <<Rd(offset, size, got, pos)>>
    IN  IF got # size
        THEN [ret |-> 0 - 1, fatal |-> FALSE, events |-> rd]
        ELSE IF clean_cache
        THEN IF cap = seL4_CapNull
             THEN [ret |-> 0 - 1, fatal |-> FALSE, events |-> rd \o <<Ev("get_cap", offset, 0, cap)>>]
             ELSE [ret |-> 0, fatal |-> FALSE, events |-> rd \o <<Ev("get_cap", offset, 0, cap)>>]
        ELSE [ret |-> 0, fatal |-> FALSE, events |-> rd]

\* faulty variant: a failed clean is logged and the callback carries on
guest_write_address_CleanErrorIgnored(size, offset, pos, got, cap, cleanError) ==
    LET rd == <<Rd(offset, size, got, pos)>>
    IN  IF got # size
        THEN [ret |-> 0 - 1, fatal |-> FALSE, events |-> rd]
        ELSE IF clean_cache
        THEN IF cap = seL4_CapNull
             THEN [ret |-> 0 - 1, fatal |-> FALSE, events |-> rd \o <<Ev("get_cap", offset, 0, cap)>>]
             ELSE [ret |-> 0, fatal |-> FALSE,
                   events |-> rd \o <<Ev("get_cap", offset, 0, cap),
                                      Ev("clean", offset, PAGE_SIZE_4K, cleanError)>>]
        ELSE [ret |-> 0, fatal |-> FALSE, events |-> rd]

\* faulty variant: the byte count of the read is not compared with the request
guest_write_address_NoLenCheck(size, offset, pos, got, cap, cleanError) ==
    LET rd == <<Rd(offset, size, got, pos)>>
    IN  IF clean_cache
        THEN IF cap = seL4_CapNull
             THEN [ret |-> 0 - 1, fatal |-> FALSE, events |-> rd \o <<Ev("get_cap", offset, 0, cap)>>]
             ELSE [ret |-> 0, fatal |-> cleanError # 0,
                   events |-> rd \o <<Ev("get_cap", offset, 0, cap),
                                      Ev("clean", offset, PAGE_SIZE_4K, cleanError)>>]
        ELSE [ret |-> 0, fatal |-> FALSE, events |-> rd]

\* faulty variant: a null page reference only skips the clean of the chunk
guest_write_address_NullCapSkipsClean(size, offset, pos, got, cap, cleanError) ==
    LET rd == <<Rd(offset, size, got, pos)>>
    IN  IF got # size
        THEN [ret |-> 0 - 1, fatal |-> FALSE, events |-> rd]
        ELSE IF clean_cache
        THEN IF cap = seL4_CapNull
             THEN [ret |-> 0, fatal |-> FALSE, events |-> rd \o <<Ev("get_cap", offset, 0, cap)>>]
             ELSE [ret |-> 0, fatal |-> cleanError # 0,
                   events |-> rd \o <<Ev("get_cap", offset, 0, cap),
                                      Ev("clean", offset, PAGE_SIZE_4K, cleanError)>>]
        ELSE [ret |-> 0, fatal |-> FALSE, events |-> rd]

\* faulty variant: only the chunk at offset 0 is cleaned
guest_write_address_CleanFirstOnly(size, offset, pos, got, cap, cleanError) ==
    LET rd == <<Rd(offset, size, got, pos)>>
    IN  IF got # size
        THEN [ret |-> 0 - 1, fatal |-> FALSE, events |-> rd]
        ELSE IF clean_cache /\ offset = 0
        THEN IF cap = seL4_CapNull
             THEN [ret |-> 0 - 1, fatal |-> FALSE, events |-> rd \o <<Ev("get_cap", offset, 0, cap)>>]
             ELSE [ret |-> 0, fatal |-> cleanError # 0,
                   events |-> rd \o <<Ev("get_cap", offset, 0, cap),
                                      Ev("clean", offset, PAGE_SIZE_4K, cleanError)>>]
        ELSE [ret |-> 0, fatal |-> FALSE, events |-> rd]

\* faulty variant: the chunk is read at its own offset, not at the handle's position
guest_write_address_ReadsAtOffset(size, offset, pos, got, cap, cleanError) ==
    LET rd == <<Rd(offset, size, got, offset)>>
    IN  IF got # size
        THEN [ret |-> 0 - 1, fatal |-> FALSE, events |-> rd]
        ELSE IF clean_cache
        THEN IF cap = seL4_CapNull
             THEN [ret |-> 0 - 1, fatal |-> FALSE, events |-> rd \o <<Ev("get_cap", offset, 0, cap)>>]
             ELSE [ret |-> 0, fatal |-> cleanError # 0,
                   events |-> rd \o <<Ev("get_cap", offset, 0, cap),
                                      Ev("clean", offset, PAGE_SIZE_4K, cleanError)>>]
        ELSE [ret |-> 0, fatal |-> FALSE, events |-> rd]

guest_write_address(size, offset, pos, got, cap, cleanError) ==
    LET rd == <<Rd(offset, size, got, pos)>>
    IN  IF got # size
        THEN [ret |-> 0 - 1, fatal |-> FALSE, events |-> rd]
        ELSE IF clean_cache
        THEN IF cap = seL4_CapNull
             THEN [ret |-> 0 - 1, fatal |-> FALSE, events |-> rd \o <<Ev("get_cap", offset, 0, cap)>>]
             ELSE [ret |-> 0, fatal |-> cleanError # 0,
                   events |-> rd \o <<Ev("get_cap", offset, 0, cap),
                                      Ev("clean", offset, PAGE_SIZE_4K, cleanError)>>]
        ELSE [ret |-> 0, fatal |-> FALSE, events |-> rd]

(***************************************************************************)
(* vm_ram_touch(vm, load_addr, file_size, guest_write_address, &fd): the   *)
(* memory manager's write-through primitive.  It walks the range in        *)
(* ascending order, one chunk per 4K page of guest-physical memory (the    *)
(* first and the last chunk may be shorter), hands each chunk to the       *)
(* callback with its offset, and stops with an error at the first chunk    *)
(* whose page it cannot access or whose callback fails.                    *)
(***************************************************************************)
ChunkSize(addr, size, offset) ==
    Min(size - offset, PAGE_SIZE_4K - (Wrap(addr + offset) % PAGE_SIZE_4K))

\* read(fd, vaddr, size) on the handle of load_image
read(size, fault) == IF fault THEN 0 ELSE Min(size, avail - fpos)

vm_ram_touch ==
    /\ pc = "touch"
    /\ \E accessFail \in BOOLEAN, fault \in BOOLEAN, capNull \in BOOLEAN, cleanError \in {0, 1} :
        LET accessOk == ~accessFail
            capOk == ~capNull
            size == ChunkSize(load_addr, file_size, off)
            got == read(size, fault)
            w == guest_write_address(size, off, fpos, got, IF capOk THEN 1 ELSE seL4_CapNull, cleanError)
        IN  IF ~accessOk
            THEN /\ error' = 0 - 1
                 /\ pc' = "touched"
                 /\ UNCHANGED <<events, fpos, off>>
            ELSE /\ events' = events \o w.events
                 /\ fpos' = fpos + got
                 /\ IF w.fatal
                    THEN /\ pc' = "aborted"
                         /\ UNCHANGED <<error, off>>
                    ELSE IF w.ret # 0
                    THEN /\ error' = w.ret
                         /\ pc' = "touched"
                         /\ UNCHANGED off
                    ELSE /\ off' = off + size
                         /\ UNCHANGED error
                         /\ pc' = IF off + size = file_size THEN "touched" ELSE "touch"
    /\ UNCHANGED <<config, role, base, descNull, desc, hdr, ret, ret_file_type, load_addr,
                   file_size, avail, err, image_size, fds, nopen>>

(***************************************************************************)
(* The same primitive with the order of delivery left open: the interface  *)
(* of the memory manager only promises one callback per page-aligned       *)
(* chunk.  Each step hands the callback any chunk not delivered yet; the   *)
(* walk ends when every chunk has been delivered or one has failed.  The   *)
(* handle of load_image is read sequentially whatever chunk is delivered.  *)
(***************************************************************************)
ChunkOffsets(addr, size) ==
    {0} \cup {o \in {k * PAGE_SIZE_4K - (addr % PAGE_SIZE_4K) : k \in 1..(MaxPages + 1)} :
                0 < o /\ o < size}

Delivered == {events[i].a : i \in {j \in DOMAIN events : events[j].op = "read"}}

vm_ram_touch_any_order ==
    /\ pc = "touch"
    /\ \E o \in ChunkOffsets(load_addr, file_size) \ Delivered, accessFail \in BOOLEAN :
       \E fault \in (IF accessFail THEN {FALSE} ELSE BOOLEAN),
          capNull \in (IF clean_cache /\ ~accessFail THEN BOOLEAN ELSE {FALSE}),
          cleanError \in (IF clean_cache /\ ~accessFail THEN {0, 1} ELSE {0}) :
        LET accessOk == ~accessFail
            capOk == ~capNull
            size == ChunkSize(load_addr, file_size, o)
            got == read(size, fault)
            w == guest_write_address(size, o, fpos, got, IF capOk THEN 1 ELSE seL4_CapNull, cleanError)
        IN  IF ~accessOk
            THEN /\ error' = 0 - 1
                 /\ pc' = "touched"
                 /\ UNCHANGED <<events, fpos, off>>
            ELSE /\ events' = events \o w.events
                 /\ fpos' = fpos + got
                 /\ IF w.fatal
                    THEN /\ pc' = "aborted"
                         /\ UNCHANGED <<error, off>>
                    ELSE IF w.ret # 0
                    THEN /\ error' = w.ret
                         /\ pc' = "touched"
                         /\ UNCHANGED off
                    ELSE /\ off' = off + size
                         /\ UNCHANGED error
                         /\ pc' = IF off + size = file_size THEN "touched" ELSE "touch"
    /\ UNCHANGED <<config, role, base, descNull, desc, hdr, ret, ret_file_type, load_addr,
                   file_size, avail, err, image_size, fds, nopen>>

(***************************************************************************)
(* load_image after vm_ram_touch (lines 188-196).                          *)
(***************************************************************************)
load_image_finish ==
    /\ pc = "touched"
    /\ LET fd == nopen
       IN  /\ events' = events \o <<Ev("close", fd, 0, 0)>>
           /\ fds' = fds \ {fd}
           /\ IF error # 0
              THEN /\ err' = 0 - 1
                   /\ UNCHANGED image_size
              ELSE /\ err' = 0
                   /\ image_size' = file_size
    /\ pc' = "return"
    /\ UNCHANGED <<config, role, base, descNull, desc, hdr, ret, ret_file_type, load_addr,
                   file_size, avail, fpos, off, error, nopen>>

(***************************************************************************)
(* The tail of load_guest_*_image (0 on error, else load_addr) and of the  *)
(* facade (a result of 0 is an error; otherwise the descriptor is filled). *)
(***************************************************************************)
LoaderResult(e, addr) == IF e # 0 THEN 0 ELSE addr

\* faulty variant: the descriptor gets the page-rounded size
FacadeReturn_SizeRounded(r) ==
    /\ pc = "return"
    /\ IF 0 = r
       THEN /\ ret' = 0 - 1
            /\ UNCHANGED desc
       ELSE /\ desc' = [load_paddr |-> r, size |-> ROUND_UP(image_size, PAGE_SIZE_4K)]
            /\ ret' = 0
    /\ pc' = "done"
    /\ UNCHANGED <<config, role, base, descNull, hdr, ret_file_type, load_addr, file_size,
                   avail, fpos, off, error, err, image_size, fds, nopen, events>>

\* faulty variant: the descriptor is filled in before the result is tested
FacadeReturn_WritesBeforeCheck(r) ==
    /\ pc = "return"
    /\ desc' = [load_paddr |-> r, size |-> image_size]
    /\ ret' = (IF 0 = r THEN 0 - 1 ELSE 0)
    /\ pc' = "done"
    /\ UNCHANGED <<config, role, base, descNull, hdr, ret_file_type, load_addr, file_size,
                   avail, fpos, off, error, err, image_size, fds, nopen, events>>

FacadeReturn(r) ==
    /\ pc = "return"
    /\ IF 0 = r
       THEN /\ ret' = 0 - 1
            /\ UNCHANGED desc
       ELSE /\ desc' = [load_paddr |-> r, size |-> image_size]
            /\ ret' = 0
    /\ pc' = "done"
    /\ UNCHANGED <<config, role, base, descNull, hdr, ret_file_type, load_addr, file_size,
                   avail, fpos, off, error, err, image_size, fds, nopen, events>>

vm_load_guest_kernel_return ==
    /\ role = "kernel"
    /\ FacadeReturn(LoaderResult(err, load_addr))

vm_load_guest_module_return ==
    /\ role = "module"
    /\ FacadeReturn(LoaderResult(err, load_addr))

(***************************************************************************)
(* The facade has returned (lines 263, 267, 271 / 282, 287, 292): its      *)
(* frame and the locals of the call are gone, and the caller may call      *)
(* again.  No component retains state across calls.                        *)
(***************************************************************************)
caller_resumes ==
    /\ pc = "done"
    /\ pc' = "idle"
    /\ role' = NONE
    /\ base' = 0
    /\ descNull' = FALSE
    /\ desc' = [load_paddr |-> PRIOR, size |-> PRIOR]
    /\ hdr' = [ident |-> ZeroWord, magic |-> ZeroWord, start |-> ZeroWord]
    /\ ret' = 0
    /\ ret_file_type' = NONE
    /\ load_addr' = 0
    /\ file_size' = 0
    /\ avail' = 0
    /\ fpos' = 0
    /\ off' = 0
    /\ error' = 0
    /\ err' = 0
    /\ image_size' = PRIOR
    /\ fds' = {}
    /\ nopen' = 0
    /\ events' = <<>>
    /\ UNCHANGED config

Next ==
    \/ vm_load_guest_kernel
    \/ vm_load_guest_module
    \/ get_guest_image_type
    \/ load_guest_kernel_image
    \/ load_guest_module_image
    \/ load_image
    \/ vm_ram_touch
    \/ load_image_finish
    \/ vm_load_guest_kernel_return
    \/ vm_load_guest_module_return
    \/ caller_resumes

Spec == Init /\ [][Next]_vars

(***************************************************************************)
(* The same program over a write-through primitive that may deliver the    *)
(* chunks in any order.                                                    *)
(***************************************************************************)
NextAnyOrder ==
    \/ vm_load_guest_kernel
    \/ vm_load_guest_module
    \/ get_guest_image_type
    \/ load_guest_kernel_image
    \/ load_guest_module_image
    \/ load_image
    \/ vm_ram_touch_any_order
    \/ load_image_finish
    \/ vm_load_guest_kernel_return
    \/ vm_load_guest_module_return
    \/ caller_resumes

\* a VM with entry 0x40000000, without cache maintenance and without deferred mapping
InitAnyOrder == Init /\ vm_entry # 0 /\ ~clean_cache /\ ~defer_map

SpecAnyOrder == InitAnyOrder /\ [][NextAnyOrder]_vars

(***************************************************************************)
(* Reading the event log.                                                  *)
(***************************************************************************)
Idx(op) == {i \in DOMAIN events : events[i].op = op}
Untouched == desc = [load_paddr |-> PRIOR, size |-> PRIOR]
Returned == pc = "done"
ShortReads == {i \in Idx("read") : events[i].c # events[i].b}

(***************************************************************************)
(* C1: when a facade call has returned, no byte-source handle opened       *)
(* during the call is still open, whatever the exit path.                  *)
(***************************************************************************)
C1_NoHandleOpenAfterReturn == Returned => fds = {}

(***************************************************************************)
(* C2: once a chunk read has returned a count different from the           *)
(* requested one, the chunk is not read again, no further chunk is read,   *)
(* the only collaborator call still made is the close of the handle, the   *)
(* descriptor stays unpopulated and the facade returns -1.                 *)
(***************************************************************************)
C2_ShortReadFailsLoad ==
    \A i \in ShortReads :
        /\ \A j \in DOMAIN events : j > i => events[j].op = "close"
        /\ Cardinality({j \in Idx("read") : events[j].a = events[i].a}) = 1
        /\ pc \in {"touched", "return", "done"}
        /\ (pc = "touched" => error # 0)
        /\ (pc = "return" => err # 0)
        /\ (pc = "done" => ret = 0 - 1)
        /\ Untouched

\* a call has returned after a short read on a chunk that is not the first one
C2_Witness ==
    /\ Returned
    /\ \E i \in ShortReads : events[i].a > 0

(***************************************************************************)
(* C3: if vm_ram_mark_allocated fails, no deferred mapping is requested,   *)
(* no chunk is read into guest memory, and the facade returns an error.    *)
(***************************************************************************)
C3_MarkFailureFailsLoad ==
    \A i \in Idx("mark_allocated") :
        events[i].c = FALSE =>
            /\ Idx("map_deferred") = {}
            /\ Idx("read") = {}
            /\ (Returned => ret = 0 - 1)

(***************************************************************************)
(* C4: the mark-allocated request for [load_addr, load_addr +              *)
(* ROUND_UP(file_size, 4K)) comes first; the deferred-mapping request      *)
(* follows it and is made exactly when the policy is configured; every     *)
(* chunk read follows both; after a failed deferred-mapping request no     *)
(* chunk is read and the facade returns -1.                                *)
(***************************************************************************)
C4_MarkThenDeferThenWrite ==
    /\ \A k \in Idx("map_deferred") :
        /\ defer_map
        /\ \E j \in Idx("mark_allocated") : j < k
        /\ (events[k].c = FALSE =>
                /\ Idx("read") = {}
                /\ pc \in {"return", "done"}
                /\ (pc = "return" => err # 0)
                /\ (pc = "done" => ret = 0 - 1))
    /\ \A j \in Idx("mark_allocated") :
        /\ events[j].a = load_addr
        /\ events[j].b = ROUND_UP(file_size, PAGE_SIZE_4K)
        /\ (defer_map => j + 1 \in Idx("map_deferred"))
    /\ \A i \in Idx("read") :
        /\ \E j \in Idx("mark_allocated") : j < i
        /\ (defer_map => \E k \in Idx("map_deferred") : k < i /\ events[k].c = TRUE)
    /\ (~defer_map => Idx("map_deferred") = {})

\* a successful load of several chunks under the deferred-mapping policy
C4_Witness ==
    /\ Returned
    /\ ret = 0
    /\ defer_map
    /\ Cardinality(Idx("read")) >= 2
    /\ Idx("map_deferred") # {}

(***************************************************************************)
(* C5 as stated: with clean_cache set, every chunk whose bytes were read   *)
(* in full gets exactly one clean-and-invalidate, issued right after its   *)
(* bytes are written (before the next chunk is read); a load never         *)
(* returns success with a written chunk that was not cleaned; with         *)
(* clean_cache clear there is no page-reference lookup and no cache        *)
(* operation.                                                              *)
(***************************************************************************)
FullReads == Idx("read") \ ShortReads
CleansOf(offset) == {k \in Idx("clean") : events[k].a = offset}

C5_EveryReadChunkCleanedOnce ==
    /\ clean_cache =>
        \A i \in FullReads :
            /\ i + 2 \in Idx("clean")
            /\ events[i + 2].a = events[i].a
            /\ Cardinality(CleansOf(events[i].a)) = 1
    /\ (~clean_cache => Idx("get_cap") = {} /\ Idx("clean") = {})

(***************************************************************************)
(* C5 amended: with clean_cache set, every chunk whose bytes were read in  *)
(* full is followed at once by the page-reference lookup, and every such   *)
(* chunk whose lookup returned a reference gets exactly one                *)
(* clean-and-invalidate of PAGE_SIZE_4K, issued right after the lookup     *)
(* and before the next chunk is read; a chunk whose lookup returned no     *)
(* reference gets none.  No clean is issued for anything but a chunk just  *)
(* written.  A load never returns success with a written chunk that was    *)
(* not cleaned.  With clean_cache clear there is no lookup and no cache    *)
(* operation.                                                              *)
(***************************************************************************)
C5_ResolvedChunkCleanedOnce ==
    /\ clean_cache =>
        /\ \A i \in FullReads :
            /\ i + 1 \in Idx("get_cap")
            /\ events[i + 1].a = events[i].a
            /\ IF events[i + 1].c # seL4_CapNull
               THEN /\ i + 2 \in Idx("clean")
                    /\ events[i + 2].a = events[i].a
                    /\ events[i + 2].b = PAGE_SIZE_4K
                    /\ Cardinality(CleansOf(events[i].a)) = 1
               ELSE CleansOf(events[i].a) = {}
        /\ \A k \in Idx("clean") :
            /\ k - 2 \in FullReads
            /\ events[k - 2].a = events[k].a
        /\ (Returned /\ ret = 0 =>
                \A i \in Idx("read") : i + 2 \in Idx("clean") /\ events[i + 2].c = 0)
    /\ (~clean_cache => Idx("get_cap") = {} /\ Idx("clean") = {})

\* a successful load of several chunks, each cleaned
C5_Witness ==
    /\ clean_cache
    /\ Returned
    /\ ret = 0
    /\ Cardinality(Idx("read")) >= 2
    /\ Cardinality(Idx("clean")) = Cardinality(Idx("read"))

(***************************************************************************)
(* C6: a failed clean-and-invalidate stops everything: it is the last      *)
(* collaborator call ever made, the call does not return (neither success  *)
(* nor an error reaches the caller, the descriptor is never populated),    *)
(* and from then on no step is taken: no chunk, no later load.             *)
(***************************************************************************)
CleanFailed == \E k \in Idx("clean") : events[k].c # 0

C6_CleanFailureIsTerminal ==
    /\ [](CleanFailed =>
            /\ pc = "aborted"
            /\ events[Len(events)].op = "clean"
            /\ events[Len(events)].c # 0
            /\ Untouched)
    /\ [][pc = "aborted" => UNCHANGED vars]_vars
    /\ [][CleanFailed => CleanFailed' /\ pc' = "aborted"]_vars

\* the clean of a chunk after the first one has failed
C6_Witness ==
    /\ pc = "aborted"
    /\ CleanFailed
    /\ Cardinality(Idx("read")) >= 2

(***************************************************************************)
(* C7: when the artifact's length is zero (the header read delivers        *)
(* nothing, or load_image finds file_size = 0), the call fails and makes   *)
(* no mark-allocated call, no deferred-mapping call and no chunk write.    *)
(***************************************************************************)
ZeroLength ==
    \/ \E i \in Idx("lseek_end") : events[i].b = 0
    \/ \E i \in Idx("read_header") : events[i].c = 0

C7_EmptyArtifactFails ==
    ZeroLength =>
        /\ Idx("mark_allocated") = {}
        /\ Idx("map_deferred") = {}
        /\ Idx("read") = {}
        /\ pc \in {"return", "done"}
        /\ (pc = "return" => err # 0)
        /\ (pc = "done" => ret = 0 - 1)
        /\ Untouched

\* load_image found an empty artifact and the call has returned
C7_Witness ==
    /\ Returned
    /\ \E i \in Idx("lseek_end") : events[i].b = 0

(***************************************************************************)
(* C8: a facade call with a NULL output descriptor returns -1 at once: no  *)
(* handle is opened and no collaborator is called at all.                  *)
(***************************************************************************)
C8_NullDescriptorRejected ==
    descNull =>
        /\ pc = "done"
        /\ ret = 0 - 1
        /\ events = <<>>
        /\ nopen = 0
        /\ fds = {}

C8_Witness == descNull /\ Returned /\ role = "module"

(***************************************************************************)
(* C9: the kernel path loads only IMG_BIN and IMG_ZIMAGE, the module path  *)
(* only IMG_DTB and IMG_INITRD_GZ.  For any other classification the call  *)
(* returns -1 and load_image is never entered: no second open, no          *)
(* mark-allocated, deferred-mapping or chunk request.                      *)
(***************************************************************************)
Allowed(r) ==
    IF r = "kernel" THEN {IMG_BIN, IMG_ZIMAGE}
    ELSE IF r = "module" THEN {IMG_DTB, IMG_INITRD_GZ}
    ELSE {}

Loading ==
    \/ pc \in {"load", "touch", "touched", "return", "aborted"}
    \/ nopen > 1
    \/ Idx("mark_allocated") \cup Idx("map_deferred") \cup Idx("read") # {}

C9_RoleAllowLists ==
    /\ (Loading => ret_file_type \in Allowed(role))
    /\ (ret_file_type # NONE /\ pc # "resolve" /\ ret_file_type \notin Allowed(role) =>
            /\ pc = "done"
            /\ ret = 0 - 1
            /\ ~Loading
            /\ Untouched)
    /\ (ret_file_type # NONE => ret_file_type = image_get_type(hdr))

\* an Elf or uImage artifact has been refused
C9_Witness ==
    /\ Returned
    /\ ret_file_type \in {IMG_ELF, IMG_UIMAGE}
    /\ role = "kernel"

(***************************************************************************)
(* C10: the load address handed to load_image (and to the memory manager,  *)
(* and reported on success) is:                                            *)
(*   IMG_BIN                 vm->entry, whatever the base address;         *)
(*   IMG_ZIMAGE              the header's start field when non-zero, else  *)
(*                           base + 0x8000 (in uintptr_t arithmetic);      *)
(*   IMG_DTB, IMG_INITRD_GZ  the base address.                             *)
(* E.g. start 0 and base 0x80000000 give 0x80008000.                       *)
(***************************************************************************)
RefLoadAddress ==
    CASE ret_file_type = IMG_BIN -> vm_entry
      [] ret_file_type = IMG_ZIMAGE ->
            IF hdr.start = <<0, 0, 0, 0>>
            THEN (base + \h2000) % UINTPTR_MOD
            ELSE (hdr.start[1] + 256 * hdr.start[2] + 65536 * hdr.start[3]) \div 4
                    + hdr.start[4] * 4194304
      [] OTHER -> base

C10_ResolvedLoadAddress ==
    /\ (pc \in {"load", "touch", "touched", "return", "aborted"} => load_addr = RefLoadAddress)
    /\ \A j \in Idx("mark_allocated") : events[j].a = RefLoadAddress
    /\ (Returned /\ ret = 0 => desc.load_paddr = RefLoadAddress)
    /\ (pc = "load" /\ ret_file_type = IMG_ZIMAGE /\ hdr.start = <<0, 0, 0, 0>> /\ base = \h20000000
            => load_addr = \h20002000)
    /\ (pc = "load" /\ ret_file_type = IMG_ZIMAGE /\ hdr.start = <<0, 16, 0, 0>>
            => load_addr = \h400)

\* a zImage without a start address at base 0x80000000 resolved to 0x80008000
C10_Witness ==
    /\ pc = "load"
    /\ ret_file_type = IMG_ZIMAGE
    /\ hdr.start = <<0, 0, 0, 0>>
    /\ base = \h20000000
    /\ load_addr = \h20002000
(***************************************************************************)
(* C11: classification is total and first-match-wins in the order Elf,     *)
(* LinuxZImage, LinuxUImage, DeviceTree, GzipInitialRamdisk, RawBinary.    *)
(* The signatures are written out as the bytes found in the header: ELF    *)
(* 7f 45 4c 46 at offset 0, zImage 18 28 6f 01 in word 9, uImage           *)
(* 27 05 19 56 at offset 0, device tree d0 0d fe ed at offset 0, gzip      *)
(* 1f 8b at offset 0.  Every classified header gets exactly the first      *)
(* format whose signature it carries, and IMG_BIN exactly when it carries  *)
(* none.                                                                   *)
(***************************************************************************)
Signatures ==
    <<[type |-> IMG_ELF, at |-> "ident", n |-> 4, bytes |-> <<127, 69, 76, 70>>],
      [type |-> IMG_ZIMAGE, at |-> "magic", n |-> 4, bytes |-> <<24, 40, 111, 1>>],
      [type |-> IMG_UIMAGE, at |-> "ident", n |-> 4, bytes |-> <<39, 5, 25, 86>>],
      [type |-> IMG_DTB, at |-> "ident", n |-> 4, bytes |-> <<208, 13, 254, 237>>],
      [type |-> IMG_INITRD_GZ, at |-> "ident", n |-> 2, bytes |-> <<31, 139>>]>>

Carries(h, k) ==
    LET sig == Signatures[k]
        field == IF sig.at = "ident" THEN h.ident ELSE h.magic
    IN  \A i \in 1..sig.n : field[i] = sig.bytes[i]

Matching(h) == {k \in DOMAIN Signatures : Carries(h, k)}

C11_FirstMatchWins ==
    ret_file_type # NONE =>
        /\ ret_file_type \in {IMG_ELF, IMG_ZIMAGE, IMG_UIMAGE, IMG_DTB, IMG_INITRD_GZ, IMG_BIN}
        /\ (Matching(hdr) = {} <=> ret_file_type = IMG_BIN)
        /\ \A k \in Matching(hdr) :
                (\A j \in Matching(hdr) : k <= j) => ret_file_type = Signatures[k].type

\* a header with both the ELF magic and the zImage magic was classified as Elf
C11_Witness ==
    /\ ret_file_type = IMG_ELF
    /\ Carries(hdr, 1)
    /\ Carries(hdr, 2)
(***************************************************************************)
(* C12: an artifact shorter than the header window (sizeof_header) is      *)
(* still classified: the header read that comes back short is followed by  *)
(* a classification as IMG_BIN, and the call is not ended by the header    *)
(* step.  get_guest_image_type instead returns -1 when the read is short,  *)
(* so this is violated.                                                    *)
(***************************************************************************)
C12_ShortArtifactIsRawBinary ==
    \A i \in Idx("read_header") :
        (0 < events[i].c /\ events[i].c < sizeof_header) =>
            /\ ret_file_type = IMG_BIN
            /\ pc # "done" \/ Idx("lseek_end") # {}
(***************************************************************************)
(* C13: when a facade returns success, the descriptor holds the resolved   *)
(* load address and the artifact length that lseek reported at the start   *)
(* of the load, and the reads of the call asked for every byte of that     *)
(* length (contiguously from offset 0 to the length) and each came back    *)
(* in full.                                                                *)
(***************************************************************************)
Reads == SelectSeq(events, LAMBDA e : e.op = "read")

C13_SuccessMeansWholeArtifact ==
    (Returned /\ ret = 0) =>
        /\ desc.load_paddr = load_addr
        /\ desc.size = file_size
        /\ \E i \in Idx("lseek_end") : events[i].b = desc.size
        /\ Len(Reads) >= 1
        /\ \A k \in 1..Len(Reads) :
                /\ Reads[k].c = Reads[k].b
                /\ Reads[k].a = (IF k = 1 THEN 0 ELSE Reads[k - 1].a + Reads[k - 1].b)
        /\ Reads[Len(Reads)].a + Reads[Len(Reads)].b = desc.size

\* a successful load of an artifact whose length is not a multiple of the page size
C13_Witness ==
    /\ Returned
    /\ ret = 0
    /\ desc.size % PAGE_SIZE_4K # 0
    /\ Len(Reads) > 1
(***************************************************************************)
(* C14: when cache maintenance is required and the page-reference lookup   *)
(* of a chunk returns the null reference, the load fails with an ordinary  *)
(* error return: the chunk gets no cache operation, no later chunk is      *)
(* written (only the close of the handle follows), the process is not      *)
(* aborted, the facade returns -1 and the descriptor is not populated.     *)
(***************************************************************************)
NullCaps == {i \in Idx("get_cap") : events[i].c = seL4_CapNull}

C14_NullPageReferenceFailsLoad ==
    \A i \in NullCaps :
        /\ clean_cache
        /\ CleansOf(events[i].a) = {}
        /\ \A j \in DOMAIN events : j > i => events[j].op = "close"
        /\ pc \in {"touched", "return", "done"}
        /\ pc = "touched" => error # 0
        /\ pc \in {"return", "done"} => err # 0
        /\ Returned => (ret = 0 - 1 /\ Untouched)

\* the lookup of a later chunk returned the null reference and the facade has returned
C14_Witness ==
    /\ Returned
    /\ \E i \in NullCaps : events[i].a > 0
(***************************************************************************)
(* C15: an artifact spanning n pages, loaded to completion at a page-      *)
(* aligned load address.                                                   *)
(*                                                                         *)
(* As claimed (C15_OneAllocationPerPage): with cache maintenance required, *)
(* the load shows n allocation + write + cache-maintenance cycles, that    *)
(* is n mark-allocated requests, n writes and n cleans, one per page.      *)
(*                                                                         *)
(* As the code behaves (C15_OneCyclePerPage): the range is marked          *)
(* allocated once, as a whole (n pages), before the first write; then      *)
(* there are exactly n writes, one per page in ascending offset order,     *)
(* each followed by the lookup and the clean of its page when the VM       *)
(* requires cache maintenance and by nothing when it does not; and a       *)
(* successful return leaves {load address, artifact length} in the         *)
(* descriptor.                                                             *)
(***************************************************************************)
LoadCompleted == pc \in {"return", "done"} /\ err = 0 /\ Idx("mark_allocated") # {}
PagesSpanned == (file_size + PAGE_SIZE_4K - 1) \div PAGE_SIZE_4K
AlignedLoad == LoadCompleted /\ load_addr % PAGE_SIZE_4K = 0

WritesOnePerPage ==
    /\ Len(Reads) = PagesSpanned
    /\ \A k \in 1..Len(Reads) : Reads[k].a = (k - 1) * PAGE_SIZE_4K

C15_OneAllocationPerPage ==
    (AlignedLoad /\ clean_cache) =>
        /\ Cardinality(Idx("mark_allocated")) = PagesSpanned
        /\ WritesOnePerPage
        /\ Cardinality(Idx("clean")) = PagesSpanned

C15_OneCyclePerPage ==
    AlignedLoad =>
        /\ Cardinality(Idx("mark_allocated")) = 1
        /\ \A m \in Idx("mark_allocated") :
                /\ events[m].b = PagesSpanned * PAGE_SIZE_4K
                /\ \A i \in Idx("read") : m < i
        /\ WritesOnePerPage
        /\ Cardinality(Idx("clean")) = (IF clean_cache THEN PagesSpanned ELSE 0)
        /\ clean_cache =>
                \A i \in Idx("read") :
                    /\ i + 2 \in Idx("clean")
                    /\ events[i + 1].op = "get_cap"
                    /\ events[i + 2].a = events[i].a
        /\ (Returned /\ ret = 0) => desc = [load_paddr |-> load_addr, size |-> file_size]

\* a three-page raw binary with entry 0x40000000 (in words), loaded with cache maintenance
C15_Witness ==
    /\ Returned
    /\ ret = 0
    /\ clean_cache
    /\ ret_file_type = IMG_BIN
    /\ desc = [load_paddr |-> \h10000000, size |-> 3 * PAGE_SIZE_4K]
    /\ Len(Reads) = 3
    /\ Cardinality(Idx("clean")) = 3
(***************************************************************************)
(* C16: the deferred-mapping request against the mark-allocated request.   *)
(*                                                                         *)
(* As claimed (C16_DeferredRangeIsMarkedRange): the deferred-mapping       *)
(* request has the address and the page-rounded length of the marked       *)
(* range, for every artifact length.                                       *)
(*                                                                         *)
(* As the code behaves (C16_DeferredRangeIsArtifactRange): the request     *)
(* has the address of the marked range and the unrounded artifact length   *)
(* file_size, so the two ranges are the same exactly when the length is a  *)
(* multiple of the page size.                                              *)
(***************************************************************************)
MarkOf(k) == CHOOSE m \in Idx("mark_allocated") : m < k

C16_DeferredRangeIsMarkedRange ==
    \A k \in Idx("map_deferred") :
        /\ events[k].a = events[MarkOf(k)].a
        /\ events[k].b = events[MarkOf(k)].b

C16_DeferredRangeIsArtifactRange ==
    \A k \in Idx("map_deferred") :
        /\ defer_map
        /\ Idx("mark_allocated") = {k - 1}
        /\ events[k].a = events[k - 1].a
        /\ events[k].a = load_addr
        /\ events[k].b = file_size
        /\ (events[k].b = events[k - 1].b) <=> (file_size % PAGE_SIZE_4K = 0)

\* deferred mapping was requested for an artifact that ends inside a page
C16_Witness ==
    \E k \in Idx("map_deferred") :
        /\ events[k].b % PAGE_SIZE_4K # 0
        /\ events[k].b < events[k - 1].b
(***************************************************************************)
(* C17: which artifact bytes a chunk callback places in its destination.   *)
(* The artifact's bytes are identified by their position in the artifact;  *)
(* a read at handle position p that returns n bytes places the artifact    *)
(* bytes [p, p + n) in the destination.                                    *)
(*                                                                         *)
(* As claimed (C17_ChunkHoldsBytesAtItsOffset): every chunk read in full   *)
(* places the artifact bytes [offset, offset + size), whatever the order   *)
(* in which the primitive delivers the chunks.                             *)
(*                                                                         *)
(* As the code behaves (C17_ChunkHoldsBytesAtHandlePosition): the callback *)
(* never uses its offset; a chunk gets the bytes at the handle's current   *)
(* position, which is the total size of the chunks delivered before it.    *)
(* These are the bytes [offset, offset + size) when the chunks so far      *)
(* were delivered in ascending contiguous order from offset 0, and then a  *)
(* successful load leaves artifact byte o at load address + o.             *)
(***************************************************************************)
RECURSIVE BytesReadBefore(_)
BytesReadBefore(k) == IF k <= 1 THEN 0 ELSE BytesReadBefore(k - 1) + Reads[k - 1].c

AscendingTo(k) ==
    \A j \in 1..k : Reads[j].a = (IF j = 1 THEN 0 ELSE Reads[j - 1].a + Reads[j - 1].b)

C17_ChunkHoldsBytesAtItsOffset ==
    \A k \in 1..Len(Reads) :
        Reads[k].c = Reads[k].b => Reads[k].pos = Reads[k].a

C17_ChunkHoldsBytesAtHandlePosition ==
    \A k \in 1..Len(Reads) :
        /\ Reads[k].pos = BytesReadBefore(k)
        /\ AscendingTo(k) => Reads[k].pos = Reads[k].a
        /\ (Reads[k].pos = Reads[k].a /\ k > 1) => Reads[k - 1].pos + Reads[k - 1].b = Reads[k].a

\* a successful load of several chunks that were delivered in ascending order
C17_Witness ==
    /\ Returned
    /\ ret = 0
    /\ Len(Reads) >= 2
    /\ AscendingTo(Len(Reads))
    /\ \A k \in 1..Len(Reads) : Reads[k].pos = Reads[k].a
(***************************************************************************)
(* C18: when the seek to the end of the artifact fails (lseek returns -1,  *)
(* which is SIZE_MAX in the size_t file_size), the load fails as           *)
(* unreadable: no mark-allocated, deferred-mapping or write request is     *)
(* made with a length that comes from the failed seek, and the facade      *)
(* returns -1.  load_image does not test the result of lseek, so this is   *)
(* violated.                                                               *)
(***************************************************************************)
SeekFailed == \E i \in Idx("lseek_end") : events[i].b = SIZE_MAX

C18_FailedSeekFailsLoad ==
    SeekFailed =>
        /\ Idx("mark_allocated") = {}
        /\ Idx("map_deferred") = {}
        /\ Idx("read") = {}
        /\ Returned => ret = 0 - 1
(***************************************************************************)
(* C19: when a facade returns an error with a non-null descriptor, the     *)
(* descriptor is as the caller passed it: load_paddr and size are written  *)
(* on no failing path, nor at any point of a call before its successful    *)
(* return.                                                                 *)
(***************************************************************************)
C19_DescriptorUntouchedOnError ==
    /\ (Returned /\ ret # 0 /\ ~descNull) => Untouched
    /\ ~(Returned /\ ret = 0) => Untouched

\* the facade returned an error after part of the artifact had been written
C19_Witness ==
    /\ Returned
    /\ ret = 0 - 1
    /\ ~descNull
    /\ Len(Reads) >= 2
    /\ Untouched
(***************************************************************************)
(* C20: a facade reports success exactly when the streaming load           *)
(* completed: once load_image has returned 0 the facade returns 0 with     *)
(* the descriptor populated, for every resolved load address, 0 included,  *)
(* and it returns 0 in no other case.  The image loaders report failure    *)
(* as a load address of 0, so a completed load at address 0 is returned    *)
(* as an error and this is violated.                                       *)
(***************************************************************************)
C20_SuccessIffLoadCompleted ==
    Returned =>
        /\ LoadCompleted => (ret = 0 /\ desc = [load_paddr |-> load_addr, size |-> file_size])
        /\ ret = 0 => LoadCompleted
====
